---------------------------- MODULE Spec2Model ----------------------------
(***************************************************************************)
(* A state-machine model of the CPU sampler of the trix repository         *)
(* (src/cpu-monitor.py): read_control, monitor_all_processes and           *)
(* monitor_bgp_cpu, together with the environment they run in: the control *)
(* file written by an external actor, the wall clock and the process       *)
(* table.  Two other scripts of the repository follow, each with a         *)
(* specification of its own: the switch-configuration script               *)
(* (src/router-lab-config/tofino_controller.py) and the data preparation   *)
(* of the plotting script (src/visualize_accuracy.py).                     *)
(*                                                                         *)
(* The text of the control file is a sequence of one-character strings,    *)
(* the text that is written out a sequence of tokens, CPU readings are     *)
(* integers (tenths of a percent).  The process table and the machine's    *)
(* core count do not change during a run, the psutil calls do not fail,    *)
(* and the output file can be created and written.                         *)
(***************************************************************************)
EXTENDS Integers, Sequences, FiniteSets, TLC

(***************************************************************************)
(* Bounds of the model.                                                    *)
(***************************************************************************)
MaxLog == 2       \* records the log may hold before sampling is cut off
MaxClock == 1     \* wall-clock readings range over 0..MaxClock
MaxCpus == 2      \* the machine has one core or MaxCpus cores

(***************************************************************************)
(* Inputs: command-line arguments (main, lines 173-238).                   *)
(***************************************************************************)
Modes == {"all", "bgp"}
RouterIds == {7}
RouterNames == {"r1"}

(***************************************************************************)
(* The control file.  It is absent, present but not readable by the        *)
(* sampler (open() fails with PermissionError), or holds a text.           *)
(***************************************************************************)
ControlTexts ==
    { <<"1">>, <<"0">>, <<"2">>, <<>>, <<" ", "1", "\n">>, <<"x">> }

FileStates ==
    { [kind |-> "absent", text |-> <<>>], [kind |-> "noperm", text |-> <<>>] }
    \cup { [kind |-> "text", text |-> t] : t \in ControlTexts }

(***************************************************************************)
(* str.strip() and int(): what read_control applies to the file's text.    *)
(***************************************************************************)
IsSpace(c) == c \in {" ", "\n", "\t", "\r"}

RECURSIVE LStrip(_)
LStrip(s) == IF s # <<>> /\ IsSpace(Head(s)) THEN LStrip(Tail(s)) ELSE s

RECURSIVE RStrip(_)
RStrip(s) ==
    IF s # <<>> /\ IsSpace(s[Len(s)])
    THEN RStrip(SubSeq(s, 1, Len(s) - 1))
    ELSE s

Strip(s) == RStrip(LStrip(s))

Digits == <<"0", "1", "2", "3", "4", "5", "6", "7", "8", "9">>

IsDigit(c) == \E d \in 1..Len(Digits) : Digits[d] = c

DigitVal(c) == (CHOOSE d \in 1..Len(Digits) : Digits[d] = c) - 1

\* digit ("_"? digit)*
RECURSIVE DigitsOK(_)
DigitsOK(s) ==
    /\ s # <<>>
    /\ IsDigit(Head(s))
    /\ \/ Len(s) = 1
       \/ Len(s) > 1 /\ s[2] = "_" /\ DigitsOK(SubSeq(s, 3, Len(s)))
       \/ Len(s) > 1 /\ s[2] # "_" /\ DigitsOK(Tail(s))

RECURSIVE DigitsValue(_, _)
DigitsValue(s, acc) ==
    IF s = <<>> THEN acc
    ELSE IF Head(s) = "_" THEN DigitsValue(Tail(s), acc)
    ELSE DigitsValue(Tail(s), 10 * acc + DigitVal(Head(s)))

\* int(text): [ok |-> FALSE] stands for ValueError.
PyInt(text) ==
    LET t == Strip(text)
        signed == t # <<>> /\ Head(t) \in {"+", "-"}
        body == IF signed THEN Tail(t) ELSE t
        mag == DigitsValue(body, 0)
    IN  IF DigitsOK(body)
        THEN [ok |-> TRUE,
              val |-> IF signed /\ Head(t) = "-" THEN 0 - mag ELSE mag]
        ELSE [ok |-> FALSE, val |-> 0]

(***************************************************************************)
(* read_control (lines 27-33).  FileNotFoundError and ValueError are       *)
(* caught and turned into 0; any other error of open() leaves the          *)
(* function as an exception.  "caught" tells that the except branch ran.   *)
(***************************************************************************)
read_control(f) ==
    CASE f.kind = "absent" -> [raised |-> FALSE, caught |-> TRUE, val |-> 0]
      [] f.kind = "noperm" -> [raised |-> TRUE, caught |-> FALSE, val |-> 0]
      [] OTHER ->
            LET r == PyInt(f.text)
            IN  [raised |-> FALSE, caught |-> ~r.ok,
                 val |-> IF r.ok THEN r.val ELSE 0]

\* A call of read_control on the file in state f would return 1.
ReadsOne(f) == ~read_control(f).raised /\ read_control(f).val = 1

(***************************************************************************)
(* The process table psutil.process_iter() walks, in pid order: the init   *)
(* process followed by the routing processes that are running.             *)
(***************************************************************************)
RequiredNames == <<"bgp", "ipfib", "urib">>

Tables ==
    { <<"init">> \o SubSeq(RequiredNames, 1, k) : k \in 0..Len(RequiredNames) }

HasProcess(tbl, nm) == \E i \in 1..Len(tbl) : tbl[i] = nm

\* for p in psutil.process_iter(): if p.name() == nm: break
\* The loop variable is left on the first match or, when nothing matches,
\* on the last process the iteration yielded (lines 94-96, 102-104, 110-112).
FindProcess(tbl, nm) ==
    IF HasProcess(tbl, nm)
    THEN CHOOSE i \in 1..Len(tbl) :
            tbl[i] = nm /\ \A j \in 1..(i - 1) : tbl[j] # nm
    ELSE Len(tbl)

\* "not <process>" (lines 97, 105, 113): a psutil.Process defines neither
\* __bool__ nor __len__, so every Process object is true.
NotProcess(p) == FALSE

(***************************************************************************)
(* What psutil.cpu_percent(percpu=True) on a machine with n cores and      *)
(* Process.cpu_percent() of the three handles read at wall-clock time t,   *)
(* in tenths of a percent: the load is idle at time 0 and grows with t.    *)
(***************************************************************************)
CpuLoad(n, t) ==
    [cores |-> [i \in 1..n |-> 10 * i * t], procs |-> <<5 * t, 3 * t, t>>]

\* The first call of cpu_percent(percpu=True), which "resets the counters"
\* (line 122): one value per core; only their number is used.
FirstReading(n) == [i \in 1..n |-> 0]

RECURSIVE SumSeq(_)
SumSeq(s) == IF s = <<>> THEN 0 ELSE Head(s) + SumSeq(Tail(s))

\* An off-by-one summation: the last core is left out.
SumButLast(s) == IF s = <<>> THEN 0 ELSE SumSeq(SubSeq(s, 1, Len(s) - 1))

\* total_cpu_percent = sum(system_cpu_percent)  (line 140)
total_cpu_percent(system_cpu_percent) == SumSeq(system_cpu_percent)

(***************************************************************************)
(* Headers and rows.                                                       *)
(***************************************************************************)
\* attrs (lines 46-56)
attrs ==
    <<"pid", "name", "exe", "cpu_percent", "memory_percent", "num_threads",
      "nice", "num_fds", "open_files">>

\* proc.info of the i-th process of the table, as process_iter(attrs) fills it.
ProcInfo(tbl, i) ==
    [pid |-> i, name |-> tbl[i], exe |-> tbl[i], cpu_percent |-> 0,
     memory_percent |-> 0, num_threads |-> 1, nice |-> 0, num_fds |-> 0,
     open_files |-> <<>>]

\* headers of monitor_all_processes (line 57)
all_headers == <<"rid", "router_name", "timestamp">> \o attrs

\* row of monitor_all_processes (lines 63-65)
all_row(rid, rname, timestamp, info) ==
    <<rid, rname, timestamp>> \o [k \in 1..Len(attrs) |-> info[attrs[k]]]

CpuColumnNames == <<"cpu1", "cpu2", "cpu3", "cpu4">>

\* cpu_columns = [f"cpu{i+1}" for i in range(num_cpus)]  (line 129)
cpu_columns(n) == [i \in 1..n |-> CpuColumnNames[i]]

\* A header that forgets the aggregate column.
bgp_headers_nototal(n) ==
    <<"rid", "router_name", "timestamp">> \o cpu_columns(n)
        \o <<"bgp_cpu", "ipfib_cpu", "urib_cpu">>

\* headers of monitor_bgp_cpu (line 130)
bgp_headers(n) ==
    <<"rid", "router_name", "timestamp", "cpu">> \o cpu_columns(n)
        \o <<"bgp_cpu", "ipfib_cpu", "urib_cpu">>

\* the tuple appended by monitor_bgp_cpu (lines 144-153)
bgp_row(rid, rname, timestamp, system_cpu_percent, procs) ==
    <<rid, rname, timestamp, total_cpu_percent(system_cpu_percent)>>
        \o system_cpu_percent \o procs

\* A log that puts the newest record first.
PrependRow(log, row) == <<row>> \o log

\* A log that stores every record twice.
AppendRowTwice(log, row) == log \o <<row, row>>

\* data_log.append(row)  (lines 66, 143)
AppendRow(log, row) == Append(log, row)

\* A start test that takes every nonzero value for "started".
NonZero(v) == v # 0

\* A loop test that never stops.
Always(v) == TRUE

\* while read_control(control_file) != 1  (lines 43, 118): the barrier is
\* left when the value read is 1.
BarrierOpen(v) == v = 1

\* read_control(control_file) == 1  (lines 69, 132)
KeepSampling(v) == v = 1

\* A hand-off that samples at once in either mode.
SampleAtOnce(m) == IF m = "all" THEN "while" ELSE "collect"

\* What follows the setup: monitor_all_processes enters "while cont" with
\* cont = True (lines 59-60); monitor_bgp_cpu evaluates the condition of its
\* while loop, a call of read_control (line 132).
AfterSetup(m) == IF m = "all" THEN "while" ELSE "poll"

(***************************************************************************)
(* Text written by the write-out.  A text is a sequence of tokens: the     *)
(* characters the CSV format gives a meaning to (comma, double quote,      *)
(* carriage return, line feed), and strings free of these characters,      *)
(* each standing for the run of characters it spells.                      *)
(***************************************************************************)
Comma == ","
Quote == "\""
CR == "\r"
LF == "\n"

\* The element of a set of one element.
The(S) == CHOOSE x \in S : TRUE

\* str(n) of an int
RECURSIVE IntStr(_)
IntStr(n) ==
    IF n < 0 THEN <<"-">> \o IntStr(0 - n)
    ELSE IF n < 10 THEN <<Digits[n + 1]>>
    ELSE IntStr(n \div 10) \o <<Digits[(n % 10) + 1]>>

\* str(x) of a float holding a whole number of seconds: "7.0"
SecondsStr(t) == IntStr(t) \o <<".", "0">>

\* str(x) of a float the model keeps in tenths: 125 is printed "12.5"
TenthsStr(v) == IntStr(v \div 10) \o <<".", Digits[(v % 10) + 1]>>

\* str(s) of a str
StrText(s) == IF s = "" THEN <<>> ELSE <<s>>

\* "sep".join(parts)
JoinText(parts, sep) ==
    LET joined[i \in Nat] ==
            IF i = 0 THEN <<>>
            ELSE IF i = 1 THEN parts[1]
            ELSE joined[i - 1] \o sep \o parts[i]
    IN  joined[Len(parts)]

\* str(f) of a psutil popenfile
FileStr(f) ==
    <<"popenfile(path='", f.path, "'", Comma, " fd=">> \o IntStr(f.fd)
        \o <<Comma, " position=">> \o IntStr(f.position)
        \o <<Comma, " mode='", f.mode, "'", Comma, " flags=">>
        \o IntStr(f.flags) \o <<")">>

\* str(l) of a list of popenfiles
ListStr(l) ==
    <<"[">> \o JoinText([i \in 1..Len(l) |-> FileStr(l[i])], <<Comma, " ">>)
        \o <<"]">>

\* The Python type of the values of a column, by its header: router_id is
\* an int (line 180), router_name a str (line 187), the timestamp and the
\* CPU and memory percentages floats, psutil's pid, num_threads, nice and
\* num_fds ints, name and exe strs, open_files a list.
ColumnKind(h) ==
    CASE h \in {"rid", "pid", "num_threads", "nice", "num_fds"} -> "int"
      [] h \in {"router_name", "name", "exe"} -> "str"
      [] h = "timestamp" -> "seconds"
      [] h = "open_files" -> "list"
      [] OTHER -> "tenths"

\* str(x), which print's join applies (lines 84, 170) and csv.writer
\* applies to a field that is not a string
py_str(kind, x) ==
    CASE kind = "int" -> IntStr(x)
      [] kind = "str" -> StrText(x)
      [] kind = "seconds" -> SecondsStr(x)
      [] kind = "list" -> ListStr(x)
      [] OTHER -> TenthsStr(x)

\* [str(x) for x in entry]
cells(hdr, entry) ==
    [k \in 1..Len(entry) |-> py_str(ColumnKind(hdr[k]), entry[k])]

\* the header strings as they are
header_cells(hdr) == [k \in 1..Len(hdr) |-> StrText(hdr[k])]

\* A writer that never quotes.
Unquoted(field) == field

DoubleQuotes(field) ==
    JoinText([i \in 1..Len(field) |->
                IF field[i] = Quote THEN <<Quote, Quote>> ELSE <<field[i]>>],
             <<>>)

\* csv.writer, default dialect (QUOTE_MINIMAL, doublequote): a field that
\* holds the delimiter, the quote character or a character of the line
\* terminator is put in quotes, with its quotes doubled.
csv_field(field) ==
    The({IF \E i \in 1..Len(f) : f[i] \in {Comma, Quote, CR, LF}
         THEN <<Quote>> \o DoubleQuotes(f) \o <<Quote>>
         ELSE f : f \in {field}})

\* writer.writerow(row) (lines 78, 80, 164, 166): the fields joined by the
\* delimiter and ended by "\r\n"; a row of one empty field is written as "".
writerow(cs) ==
    The({IF row = << <<>> >>
         THEN <<Quote, Quote, CR, LF>>
         ELSE JoinText([k \in 1..Len(row) |-> csv_field(row[k])], <<Comma>>)
                 \o <<CR, LF>> : row \in {cs}})

\* print(",".join(...))  (lines 82, 84, 168, 170)
print_line(cs) == The({JoinText(row, <<Comma>>) \o <<LF>> : row \in {cs}})

\* what "for entry in data_log: writer.writerow(entry)" writes, call by call
csv_lines(hdr, log) == [k \in 1..Len(log) |-> writerow(cells(hdr, log[k]))]

\* what "for entry in data_log: print(...)" writes, call by call
print_lines(hdr, log) == [k \in 1..Len(log) |-> print_line(cells(hdr, log[k]))]

\* A write-out that ignores the output path.
NoFile(path) == FALSE

\* "if output_file:" (lines 73, 159): None and the empty path are false.
ToFile(path) == path # <<>>

\* os.path.dirname of a path given by its components
dirname(path) == SubSeq(path, 1, Len(path) - 1)

\* os.makedirs(d, exist_ok=True): d and the ancestors of d exist afterwards
makedirs(existing, d) == existing \cup {SubSeq(d, 1, k) : k \in 1..Len(d)}

(***************************************************************************)
(* The switch-configuration script, tofino_controller.py.  Its first part  *)
(* (lines 1-176) is the configuration: rule dictionaries, some of them     *)
(* filled in from a template.  A dictionary is a sequence of rules in      *)
(* insertion order; keys and arguments are sequences of strings; <<>>      *)
(* stands for None.                                                        *)
(***************************************************************************)
SwTables ==
    {"delay", "static_route", "ipv4_filter", "ipv4_route", "l2_route",
     "fallback_route", "tcp_src_mirror", "tcp_dst_mirror", "ip_mirror",
     "l2_mirror", "mirror_all", "static_host_for_multicast_traffic",
     "ipv4_host"}

\* line 37
use_delayer == TRUE

\* <key>: {<arguments>}
Rule(k, a) == [key |-> k, args |-> a]

\* <key>: {'mirror_session': sid, 'mirror_port': port}
MirrorRule(k, sid, port) == [key |-> k, session |-> sid, port |-> port]

\* The file as it stands, its placeholders filled with no rules.
ConfigPlain ==
    [rules_delay |-> <<>>,
     rules_static_route |-> <<>>,
     rules_ipv4_filter |-> <<>>,
     rules_ipv4_route |-> <<>>,
     rules_l2_route |-> <<Rule(<<"08:c0:eb:6f:f5:26">>, <<"36">>)>>,
     rules_fallback_route |-> <<>>,
     debug_port |-> <<>>,
     rules_tcp_mirror |-> <<>>,
     rules_ip_mirror |-> <<>>,
     rules_l2_mirror |-> <<>>,
     rules_mirror_all |-> <<>>,
     rules_ipv4_host_src_mac |-> <<>>,
     rules_ipv4_host_dst_mac |-> <<>>,
     rules_ipv4_host_src_and_dst_mac |-> <<>>,
     rules_traffic_replication |-> <<>>,
     traffic_replication_filter_src_ip |-> "10.0.0.9",
     traffic_replication_client_port |-> "8",
     traffic_replication_server_port |-> "16"]

\* Every dictionary holds rules, as the usage comments of the file show
\* them; two of the mirror dictionaries share a mirror session.
ConfigFull ==
    [rules_delay |->
        <<Rule(<<"4">>, <<"de:ad:00:00:00:01", "de:ad:00:00:00:02", "1000",
                         "52", "12">>)>>,
     rules_static_route |-> <<Rule(<<"4">>, <<"12">>), Rule(<<"12">>, <<"4">>)>>,
     rules_ipv4_filter |-> <<"10.0.0.66">>,
     rules_ipv4_route |-> <<Rule(<<"10.0.0.1">>, <<"4">>)>>,
     rules_l2_route |->
        <<Rule(<<"08:c0:eb:6f:f5:26">>, <<"36">>),
          Rule(<<"64:9d:99:b1:ad:5b">>, <<"136">>)>>,
     rules_fallback_route |-> <<Rule(<<"20">>, <<"4">>)>>,
     debug_port |-> <<"60">>,
     rules_tcp_mirror |-> <<MirrorRule(<<"179">>, "1", "138")>>,
     rules_ip_mirror |->
        <<MirrorRule(<<"10.0.0.1", "10.0.0.2">>, "1", "138")>>,
     rules_l2_mirror |->
        <<MirrorRule(<<"de:ad:be:ef:00:00", "de:ad:00:6f:04:01">>, "2", "138"),
          MirrorRule(<<"de:ad:be:ef:00:00", "de:ad:00:6f:04:02">>, "2", "138")>>,
     rules_mirror_all |-> <<MirrorRule(<<>>, "3", "44")>>,
     rules_ipv4_host_src_mac |->
        <<Rule(<<"10.0.1.1">>, <<"aa:bb:cc:dd:ee:01">>)>>,
     rules_ipv4_host_dst_mac |->
        <<Rule(<<"10.0.1.2">>, <<"aa:bb:cc:dd:ee:02">>)>>,
     rules_ipv4_host_src_and_dst_mac |->
        <<Rule(<<"10.0.1.3">>, <<"aa:bb:cc:dd:ee:03", "aa:bb:cc:dd:ee:04">>)>>,
     rules_traffic_replication |->
        <<Rule(<<"24">>, <<"aa:bb:cc:dd:ee:05", "10.0.2.1">>)>>,
     traffic_replication_filter_src_ip |-> "10.0.0.9",
     traffic_replication_client_port |-> "8",
     traffic_replication_server_port |-> "16"]

\* A static route for the port the replication client is attached to.
ConfigClash ==
    [ConfigPlain EXCEPT !.rules_static_route = <<Rule(<<"8">>, <<"12">>)>>]

Configs == {ConfigPlain, ConfigFull, ConfigClash}

(***************************************************************************)
(* The second part of the script (lines 212-325) is a straight sequence of *)
(* calls of the switch's table API.  One call is one operation.            *)
(***************************************************************************)
Clear(t) ==
    [op |-> "clear", tbl |-> t, key |-> <<>>, action |-> "", args |-> <<>>]

Add(t, k, a, x) ==
    [op |-> "add", tbl |-> t, key |-> k, action |-> a, args |-> x]

SetDefault(t, a, x) ==
    [op |-> "set_default", tbl |-> t, key |-> <<>>, action |-> a, args |-> x]

MirrorDelete(sid) ==
    [op |-> "mirror_delete", tbl |-> "mirror.cfg", key |-> <<sid>>,
     action |-> "", args |-> <<>>]

MirrorAdd(sid, port) ==
    [op |-> "mirror_add", tbl |-> "mirror.cfg", key |-> <<sid>>,
     action |-> "normal", args |-> <<port>>]

Complete ==
    [op |-> "complete", tbl |-> "", key |-> <<>>, action |-> "",
     args |-> <<>>]

RECURSIVE Concat(_)
Concat(ss) == IF ss = <<>> THEN <<>> ELSE Head(ss) \o Concat(Tail(ss))

\* for key in rules: table.add_with_<action>(key, **rules[key])
AddEach(t, rules, a) ==
    [i \in 1..Len(rules) |-> Add(t, rules[i].key, a, rules[i].args)]

\* lines 213-216
FillDelay(c) ==
    <<Clear("delay")>>
        \o (IF use_delayer
            THEN AddEach("delay", c.rules_delay, "send_delayed")
            ELSE <<>>)

\* lines 218-225
FillStaticRoute(c) ==
    <<Clear("static_route")>>
        \o AddEach("static_route", c.rules_static_route, "send")
        \o <<Add("static_route", <<c.traffic_replication_client_port>>,
                 "replicate_traffic_client", <<>>),
             Add("static_route", <<c.traffic_replication_server_port>>,
                 "send", <<c.traffic_replication_client_port>>)>>
        \o (IF c.rules_mirror_all # <<>>
            THEN <<Add("static_route", <<c.rules_mirror_all[1].port>>,
                       "drop", <<>>)>>
            ELSE <<>>)

\* lines 227-231
FillIpv4Filter(c) ==
    <<Clear("ipv4_filter")>>
        \o [i \in 1..Len(c.rules_ipv4_filter) |->
                Add("ipv4_filter", <<c.rules_ipv4_filter[i]>>, "drop", <<>>)]
        \o <<Add("ipv4_filter", <<c.traffic_replication_filter_src_ip>>,
                 "drop", <<>>)>>

\* lines 233-235
FillIpv4Route(c) ==
    <<Clear("ipv4_route")>> \o AddEach("ipv4_route", c.rules_ipv4_route, "send")

\* An l2_route section that adds without clearing first.
L2RouteNotCleared(c) ==
    AddEach("l2_route", c.rules_l2_route, "send")
        \o <<Add("l2_route", <<"ff:ff:ff:ff:ff:ff">>, "broadcast", <<>>)>>

\* lines 237-240
FillL2Route(c) ==
    <<Clear("l2_route")>>
        \o AddEach("l2_route", c.rules_l2_route, "send")
        \o <<Add("l2_route", <<"ff:ff:ff:ff:ff:ff">>, "broadcast", <<>>)>>

\* lines 242-246
FillFallbackRoute(c) ==
    <<Clear("fallback_route")>>
        \o AddEach("fallback_route", c.rules_fallback_route, "send")
        \o (IF c.debug_port # <<>>
            THEN <<SetDefault("fallback_route", "send", c.debug_port)>>
            ELSE <<>>)

\* try: bfrt.mirror.cfg.delete(sid) / except BfRtTableError: pass, then
\* bfrt.mirror.cfg.add_with_normal(sid=sid, ...)  (lines 252-260, 268-276,
\* 283-291, 298-306)
MirrorSession(r) == <<MirrorDelete(r.session), MirrorAdd(r.session, r.port)>>

\* lines 248-263
FillTcpMirror(c) ==
    <<Clear("tcp_src_mirror"), Clear("tcp_dst_mirror")>>
        \o Concat([i \in 1..Len(c.rules_tcp_mirror) |->
                LET r == c.rules_tcp_mirror[i]
                IN  MirrorSession(r)
                      \o <<Add("tcp_src_mirror", r.key, "do_tcp_mirror",
                               <<r.session>>),
                           Add("tcp_dst_mirror", r.key, "do_tcp_mirror",
                               <<r.session>>)>>])

\* lines 265-278
FillIpMirror(c) ==
    <<Clear("ip_mirror")>>
        \o Concat([i \in 1..Len(c.rules_ip_mirror) |->
                LET r == c.rules_ip_mirror[i]
                IN  MirrorSession(r)
                      \o <<Add("ip_mirror", r.key, "do_ip_mirror",
                               <<r.session>>)>>])

\* lines 280-293
FillL2Mirror(c) ==
    <<Clear("l2_mirror")>>
        \o Concat([i \in 1..Len(c.rules_l2_mirror) |->
                LET r == c.rules_l2_mirror[i]
                IN  MirrorSession(r)
                      \o <<Add("l2_mirror", r.key, "do_l2_mirror",
                               <<r.session>>)>>])

\* lines 295-308
FillMirrorAll(c) ==
    <<Clear("mirror_all")>>
        \o (IF c.rules_mirror_all # <<>>
            THEN LET r == c.rules_mirror_all[1]
                 IN  MirrorSession(r)
                       \o <<SetDefault("mirror_all", "do_mirror_all",
                                       <<r.session>>)>>
            ELSE <<>>)

\* lines 311-314
FillMulticastHost(c) ==
    <<Clear("static_host_for_multicast_traffic")>>
        \o [i \in 1..Len(c.rules_traffic_replication) |->
                LET r == c.rules_traffic_replication[i]
                IN  Add("static_host_for_multicast_traffic",
                        <<"0xFFFE">> \o r.key,
                        "set_l2_and_l3_src_and_dst_addr",
                        <<"de:ad:be:ef:de:ad",
                          c.traffic_replication_filter_src_ip>> \o r.args)]

\* lines 317-323
FillIpv4Host(c) ==
    <<Clear("ipv4_host")>>
        \o AddEach("ipv4_host", c.rules_ipv4_host_src_mac, "set_l2_src_addr")
        \o AddEach("ipv4_host", c.rules_ipv4_host_dst_mac, "set_l2_dst_addr")
        \o AddEach("ipv4_host", c.rules_ipv4_host_src_and_dst_mac,
                   "set_l2_src_and_dst_addr")

\* lines 212-325, in the order of the file
Program(c) ==
    FillDelay(c) \o FillStaticRoute(c) \o FillIpv4Filter(c)
        \o FillIpv4Route(c) \o FillL2Route(c) \o FillFallbackRoute(c)
        \o FillTcpMirror(c) \o FillIpMirror(c) \o FillL2Mirror(c)
        \o FillMirrorAll(c) \o FillMulticastHost(c) \o FillIpv4Host(c)
        \o <<Complete>>

(***************************************************************************)
(* The switch: the entries of each match-action table, each table's        *)
(* default entry, and the mirror sessions.  What the calls do to it is the *)
(* table API's doing: clear() deletes all entries of a table and resets    *)
(* its default entry; adding a key that is present, or a mirror session    *)
(* that exists, fails with a BfRtTableError, as does deleting a mirror     *)
(* session that does not exist.  The script catches that error around the  *)
(* delete only; anywhere else it ends the script.                          *)
(***************************************************************************)
NoDefault == [action |-> "", args |-> <<>>]

EmptySwitch ==
    [tables |-> [t \in SwTables |-> {}],
     defaults |-> [t \in SwTables |-> NoDefault],
     sessions |-> {},
     error |-> FALSE]

\* A switch that something else has filled.
StaleSwitch ==
    [tables |->
        [t \in SwTables |-> {[key |-> <<"stale">>, action |-> "drop",
                              args |-> <<>>]}],
     defaults |-> [t \in SwTables |-> [action |-> "drop", args |-> <<>>]],
     sessions |-> {[sid |-> "1", port |-> "99"], [sid |-> "7", port |-> "99"]},
     error |-> FALSE]

Apply(s, o) ==
    CASE o.op = "clear" ->
            [s EXCEPT !.tables[o.tbl] = {}, !.defaults[o.tbl] = NoDefault]
      [] o.op = "add" ->
            IF \E e \in s.tables[o.tbl] : e.key = o.key
            THEN [s EXCEPT !.error = TRUE]
            ELSE [s EXCEPT !.tables[o.tbl] =
                    @ \cup {[key |-> o.key, action |-> o.action,
                             args |-> o.args]}]
      [] o.op = "set_default" ->
            [s EXCEPT !.defaults[o.tbl] =
                [action |-> o.action, args |-> o.args]]
      [] o.op = "mirror_delete" ->
            [s EXCEPT !.sessions = {m \in @ : m.sid # o.key[1]}]
      [] o.op = "mirror_add" ->
            IF \E m \in s.sessions : m.sid = o.key[1]
            THEN [s EXCEPT !.error = TRUE]
            ELSE [s EXCEPT !.sessions =
                    @ \cup {[sid |-> o.key[1], port |-> o.args[1]]}]
      [] OTHER -> s

\* The switch after the operations ops, up to the first that fails.
RECURSIVE RunAll(_, _)
RunAll(s, ops) ==
    IF ops = <<>> \/ s.error THEN s ELSE RunAll(Apply(s, Head(ops)), Tail(ops))

\* What the script may find: an empty switch, a switch filled by something
\* else, or what an earlier run of the script with some configuration left.
PriorSwitches ==
    {EmptySwitch, StaleSwitch}
        \cup {s \in {RunAll(EmptySwitch, Program(c)) : c \in Configs} : ~s.error}

(***************************************************************************)
(* The plotting script, visualize_accuracy.py: the data frames read from   *)
(* the eval files and what lines 116-146 make of them.  A data frame is a  *)
(* sequence of rows; of a row the model keeps the columns these lines look *)
(* at.  A sample_id is a string, given by its characters, or NaN where the *)
(* file has no value.                                                      *)
(***************************************************************************)
MaxFrames == 2

NaN == [nan |-> TRUE, text |-> <<>>]

Str(t) == [nan |-> FALSE, text |-> t]

SampleIds == {Str(<<"a">>), Str(<<"a", "b">>), Str(<<"b">>), NaN}

Models == {"fw_updates", "ufdm.csv"}

EvalRows == [sample_id : SampleIds, model : Models, measured : {0, 1}]

\* pd.read_csv of one eval file
Frames == {<<r>> : r \in EvalRows}

\* args.filter_sample_id (line 31; "" by default), args.sample and
\* args.only_nonzero (lines 42-43), the plot list being just "quantiles"
\* (lines 86-87), args.include_model and args.exclude_model (lines 36-37,
\* 48-84); 0 stands for no --sample.
VisArgs ==
    [filter_sample_id : {<<>>, <<"a">>, <<"b">>},
     sample : {0, 1},
     only_nonzero : BOOLEAN,
     quantiles_only : BOOLEAN,
     include_model : {{}, {"fw_updates"}},
     exclude_model : {{}, {"ufdm"}}]

\* pd.concat(dfs)
RECURSIVE concat(_)
concat(dfs) == IF dfs = <<>> THEN <<>> ELSE Head(dfs) \o concat(Tail(dfs))

\* df[mask]: the rows of df that satisfy Keep, in their order
RECURSIVE Select(_, _)
Select(df, keep) ==
    IF df = <<>> THEN <<>>
    ELSE (IF keep[Head(df)] THEN <<Head(df)>> ELSE <<>>)
            \o Select(Tail(df), keep)

\* Series.str.contains(pat, na=False) for a pattern free of regular
\* expression operators: pat occurs in the string; a missing value gives
\* False.
str_contains(id, pat) ==
    /\ ~id.nan
    /\ \E i \in 0..(Len(id.text) - Len(pat)) :
            SubSeq(id.text, i + 1, i + Len(pat)) = pat

\* "model not in m" for the model names at hand
NotIn(model, m) == ~(model = m \/ (model = "ufdm" /\ m = "ufdm.csv"))

\* df.sample(n): n rows of df, picked without replacement, in any order
Samples(df, n) ==
    {[k \in 1..n |-> df[pick[k]]] :
        pick \in {f \in [1..n -> 1..Len(df)] :
                    \A i \in 1..n : \A j \in 1..n : f[i] = f[j] => i = j}}

\* df after line 119: the filter's result goes to filtered_df, df stays.
AfterFilter(df, filtered) == df

(***************************************************************************)
(* State.                                                                  *)
(***************************************************************************)
VARIABLES
    vis_args,       \* the script's arguments
    vis_dfs,        \* dfs: the data frames that were read
    vis_df,         \* df
    vis_filtered_df,\* filtered_df
    vis_columns,    \* "read" or "renamed": the column names of df
    vis_pc,         \* where the script is
    vis_used,       \* the rows the statistics, the transformation and the
                    \* plots were computed from
    sw_cfg,         \* the script's configuration
    switch,         \* the switch
    sw_before,      \* history: the switch as the script found it
    sw_pc,          \* the number of operations the script has issued
    sw_status,      \* "off", "running", "failed" or "done"
    sw_ops,         \* history: the operations issued, in order
    mode,           \* "all": --all-processes was given; "bgp" otherwise
    router_id,      \* --router-id
    router_name,    \* --router-name
    output_file,    \* <<>> (None) with --std-out, else the components of
                    \*   the path of the CSV file
    ctl,            \* the control file, written by an external actor
    clock,          \* the wall clock datetime.utcnow() reads
    table,          \* the process table
    pc,             \* the sampler's position in its function
    rc,             \* what the latest read_control call returned
    cont,           \* monitor_all_processes' cont
    data_log,       \* data_log
    headers,        \* headers
    last_cpu,       \* monitor_bgp_cpu's last_cpu
    num_cpus,       \* monitor_bgp_cpu's num_cpus
    bgp_process,    \* the three handles of monitor_bgp_cpu: indices
    ipfib_process,  \*   into the process table
    urib_process,
    iter,           \* the processes process_iter(attrs) has yet to yield
    proc,           \* the loop variable of "for proc in ..."
    out,            \* the rows handed to writerow or to print, in order
    dirs,           \* the directories os.makedirs has created
    file,           \* the CSV file: whether it exists, and the texts
                    \*   written to it, one after the other
    stdout,         \* the texts printed to standard output, one after
                    \*   the other
    tick,           \* history: the number of ticks started
    visible,        \* history: visible[t] processes were visible at tick t
    tick_of,        \* history: tick_of[i] is the tick of data_log[i]
    reads,          \* history: the calls of read_control by the main loop
    ones,           \* history: those of them that returned 1
    absorbed,       \* history: the main loop's latest call of read_control
                    \*   ended in its except branch
    flicker,        \* history: "nopoll" before the sampler's first read of
                    \*   the control file; then whether the file has, since
                    \*   the latest read, gone from reading 1 to not reading
                    \*   1 or back ("flickered") or not ("steady")
    missed          \* history: the loops in which a change of the file and
                    \*   its reversal lay between two consecutive reads

vars ==
    <<mode, router_id, router_name, output_file, ctl, clock, table, pc, rc,
      cont, data_log, headers, last_cpu, num_cpus, bgp_process,
      ipfib_process, urib_process, iter, proc, out, dirs, file, stdout,
      tick, visible, tick_of,
      reads, ones, absorbed, flicker, missed,
      sw_cfg, switch, sw_before, sw_pc, sw_status, sw_ops,
      vis_args, vis_dfs, vis_df, vis_filtered_df, vis_columns, vis_pc,
      vis_used>>

args == <<mode, router_id, router_name, output_file, table>>
env == <<ctl, clock>>
handles == <<bgp_process, ipfib_process, urib_process>>
shape == <<headers, last_cpu, num_cpus>>
history == <<tick, visible, tick_of, reads, ones, absorbed, flicker, missed>>
counts == <<reads, ones, absorbed>>
race == <<flicker, missed>>
dest == <<dirs, file, stdout>>
tofino == <<sw_cfg, switch, sw_before, sw_pc, sw_status, sw_ops>>
vis ==
    <<vis_args, vis_dfs, vis_df, vis_filtered_df, vis_columns, vis_pc,
      vis_used>>
elsewhere == <<tofino, vis>>
sampler ==
    <<args, env, pc, rc, cont, data_log, shape, handles, iter, proc, out, dest,
      history>>

\* The plotting script is not run.
NoVis ==
    /\ vis_args = [filter_sample_id |-> <<>>, sample |-> 0,
                   only_nonzero |-> FALSE, quantiles_only |-> FALSE,
                   include_model |-> {}, exclude_model |-> {}]
    /\ vis_dfs = <<>>
    /\ vis_df = <<>>
    /\ vis_filtered_df = <<>>
    /\ vis_columns = "read"
    /\ vis_pc = "off"
    /\ vis_used = <<>>

\* The switch-configuration script is not run.
NoTofino ==
    /\ sw_cfg = ConfigPlain
    /\ switch = EmptySwitch
    /\ sw_before = EmptySwitch
    /\ sw_pc = 0
    /\ sw_status = "off"
    /\ sw_ops = <<>>

\* The number of cores of the machine: len(psutil.cpu_percent(percpu=True)).
CoreCounts == {1, MaxCpus}

OutputFiles == {<<>>, <<"cpu_log", "cpu_log.csv">>}

Init ==
    /\ mode \in Modes
    /\ router_id \in RouterIds
    /\ router_name \in RouterNames
    /\ output_file \in OutputFiles
    /\ ctl \in FileStates
    /\ clock \in 0..MaxClock
    /\ table \in Tables
    /\ pc = IF mode = "all" THEN "barrier" ELSE "lookup"
    /\ rc = 0
    /\ cont = FALSE
    /\ data_log = <<>>
    /\ headers = <<>>
    /\ last_cpu = <<>>
    /\ num_cpus = 0
    /\ bgp_process = 0
    /\ ipfib_process = 0
    /\ urib_process = 0
    /\ iter = <<>>
    /\ proc = 0
    /\ out = <<>>
    /\ dirs = {}
    /\ file = [exists |-> FALSE, text |-> <<>>]
    /\ stdout = <<>>
    /\ tick = 0
    /\ visible = <<>>
    /\ tick_of = <<>>
    /\ reads = 0
    /\ ones = 0
    /\ absorbed = FALSE
    /\ flicker = "nopoll"
    /\ missed = {}
    /\ NoTofino
    /\ NoVis

(***************************************************************************)
(* The environment.                                                        *)
(***************************************************************************)
\* The environment is followed for as long as the sampler runs.
Running == pc \notin {"done", "raised", "aborted"}

\* The external actor rewrites, removes or locks away the control file.
WriteControl ==
    /\ Running
    /\ \E f \in FileStates : f # ctl /\ ctl' = f
    /\ UNCHANGED <<elsewhere, args, dest, clock, pc, rc, cont, data_log, shape, handles, iter,
                   proc, out, history>>

\* The same writer, with the history of its writes kept: whether the file
\* has changed between reading 1 and not reading 1 since the sampler last
\* read it.
Rewrite ==
    /\ Running
    /\ \E f \in FileStates :
        /\ f # ctl
        /\ ctl' = f
        /\ flicker' = IF flicker # "nopoll" /\ ReadsOne(f) # ReadsOne(ctl)
                      THEN "flickered"
                      ELSE flicker
    /\ UNCHANGED <<elsewhere, args, dest, clock, pc, rc, cont, data_log, shape, handles, iter,
                   proc, out, tick, visible, tick_of, counts, missed>>

\* Time passes.
ClockAdvance ==
    /\ Running
    /\ clock < MaxClock
    /\ clock' = clock + 1
    /\ UNCHANGED <<elsewhere, args, dest, ctl, pc, rc, cont, data_log, shape, handles, iter,
                   proc, out, history>>

\* The wall clock is set back (a clock step, or the local-time reading of
\* datetime.utcnow().timestamp() crossing a daylight-saving change).
ClockSetBack ==
    /\ Running
    /\ \E t \in 0..(clock - 1) : clock' = t
    /\ UNCHANGED <<elsewhere, args, dest, ctl, pc, rc, cont, data_log, shape, handles, iter,
                   proc, out, history>>

(***************************************************************************)
(* monitor_bgp_cpu, lines 93-115: the three handles are looked up; a       *)
(* handle that tests false aborts the function with a message.             *)
(***************************************************************************)
Lookup ==
    /\ pc = "lookup"
    /\ LET b == FindProcess(table, "bgp")
           i == FindProcess(table, "ipfib")
           u == FindProcess(table, "urib")
       IN  IF NotProcess(b)
           THEN /\ pc' = "aborted"
                /\ UNCHANGED handles
           ELSE IF NotProcess(i)
           THEN /\ pc' = "aborted"
                /\ bgp_process' = b
                /\ UNCHANGED <<ipfib_process, urib_process>>
           ELSE IF NotProcess(u)
           THEN /\ pc' = "aborted"
                /\ bgp_process' = b
                /\ ipfib_process' = i
                /\ UNCHANGED urib_process
           ELSE /\ pc' = "barrier"
                /\ bgp_process' = b
                /\ ipfib_process' = i
                /\ urib_process' = u
    /\ UNCHANGED <<elsewhere, args, dest, env, rc, cont, data_log, shape, iter, proc, out,
                   history>>

(***************************************************************************)
(* The barrier, lines 42-44 and 117-119.                                   *)
(***************************************************************************)
Barrier ==
    /\ pc = "barrier"
    /\ flicker' = "steady"
    /\ \E r \in {read_control(ctl)} :
           IF r.raised
           THEN /\ pc' = "raised"
                /\ UNCHANGED <<rc, missed>>
           ELSE /\ rc' = r.val
                /\ pc' = IF BarrierOpen(r.val) THEN "setup" ELSE "barrier_sleep"
                /\ missed' = IF flicker = "flickered" /\ r.val # 1
                             THEN missed \cup {"barrier"}
                             ELSE missed
    /\ UNCHANGED <<elsewhere, args, dest, env, cont, data_log, shape, handles, iter, proc, out,
                   tick, visible, tick_of, counts>>

BarrierSleep ==
    /\ pc = "barrier_sleep"
    /\ pc' = "barrier"
    /\ UNCHANGED <<elsewhere, args, dest, env, rc, cont, data_log, shape, handles, iter, proc,
                   out, history>>

(***************************************************************************)
(* Lines 46-59 and 121-130: the headers, and for monitor_bgp_cpu the       *)
(* number of cores, are fixed here.  The machine's core count is first     *)
(* seen by the call on line 122 and does not change during the run.        *)
(***************************************************************************)
Setup ==
    /\ pc = "setup"
    /\ pc' = AfterSetup(mode)
    /\ IF mode = "all"
       THEN /\ headers' = all_headers
            /\ cont' = TRUE
            /\ UNCHANGED <<last_cpu, num_cpus>>
       ELSE /\ \E n \in CoreCounts :
                /\ last_cpu' = FirstReading(n)
                /\ num_cpus' = Len(last_cpu')
                /\ headers' = bgp_headers(num_cpus')
            /\ UNCHANGED cont
    /\ UNCHANGED <<elsewhere, args, dest, env, rc, data_log, handles, iter, proc, out, history>>

(***************************************************************************)
(* monitor_all_processes, lines 59-71.                                     *)
(***************************************************************************)
\* while cont: for proc in psutil.process_iter(attrs)
While ==
    /\ pc = "while"
    /\ IF cont
       THEN /\ iter' = [i \in 1..Len(table) |-> i]
            /\ tick' = tick + 1
            /\ visible' = Append(visible, Len(table))
            /\ pc' = "for"
       ELSE /\ pc' = "write"
            /\ UNCHANGED <<iter, tick, visible>>
    /\ UNCHANGED <<elsewhere, args, dest, env, rc, cont, data_log, shape, handles, proc, out,
                   tick_of, counts, race>>

\* The iterator yields the next process, or is exhausted.
For ==
    /\ pc = "for"
    /\ IF iter = <<>>
       THEN /\ pc' = "while"
            /\ UNCHANGED <<iter, proc>>
       ELSE /\ proc' = Head(iter)
            /\ iter' = Tail(iter)
            /\ pc' = "row"
    /\ UNCHANGED <<elsewhere, args, dest, env, rc, cont, data_log, shape, handles, out, history>>

\* Lines 62-66.
Row ==
    /\ pc = "row"
    /\ Len(data_log) < MaxLog
    /\ LET timestamp == clock
           row == all_row(router_id, router_name, timestamp,
                          ProcInfo(table, proc))
       IN  data_log' = AppendRow(data_log, row)
    /\ tick_of' = tick_of \o [k \in 1..(Len(data_log') - Len(data_log)) |-> tick]
    /\ pc' = "sleep"
    /\ UNCHANGED <<elsewhere, args, dest, env, rc, cont, shape, handles, iter, proc, out, tick,
                   visible, counts, race>>

(***************************************************************************)
(* monitor_bgp_cpu, lines 134-154.                                         *)
(***************************************************************************)
Collect ==
    /\ pc = "collect"
    /\ Len(data_log) < MaxLog
    /\ LET timestamp == clock
           m == CpuLoad(Len(last_cpu), clock)
           row == bgp_row(router_id, router_name, timestamp, m.cores, m.procs)
       IN  data_log' = AppendRow(data_log, row)
    /\ tick_of' = tick_of \o [k \in 1..(Len(data_log') - Len(data_log)) |-> tick]
    /\ pc' = "sleep"
    /\ UNCHANGED <<elsewhere, args, dest, env, rc, cont, shape, handles, iter, proc, out, tick,
                   visible, counts, race>>

(***************************************************************************)
(* Both loops: time.sleep(interval), then the control file is read         *)
(* (lines 68-71 and 157, 132).                                             *)
(***************************************************************************)
Sleep ==
    /\ pc = "sleep"
    /\ pc' = "poll"
    /\ UNCHANGED <<elsewhere, args, dest, env, rc, cont, data_log, shape, handles, iter, proc,
                   out, history>>

Poll ==
    /\ pc = "poll"
    /\ reads' = reads + 1
    /\ flicker' = "steady"
    /\ \E r \in {read_control(ctl)} :
           IF r.raised
           THEN /\ pc' = "raised"
                /\ UNCHANGED <<rc, cont, ones, absorbed, missed>>
           ELSE /\ rc' = r.val
                /\ cont' = IF mode = "all" THEN KeepSampling(r.val) ELSE cont
                /\ ones' = IF r.val = 1 THEN ones + 1 ELSE ones
                /\ absorbed' = r.caught
                /\ missed' = IF flicker = "flickered" /\ reads >= 1 /\ r.val = 1
                             THEN missed \cup {"loop"}
                             ELSE missed
                /\ pc' = "test"
    /\ UNCHANGED <<elsewhere, args, dest, env, data_log, shape, handles, iter, proc, out, tick,
                   visible, tick_of>>

\* "if not cont: break" (lines 70-71); the loop condition of line 132.
Test ==
    /\ pc = "test"
    /\ IF mode = "all"
       THEN /\ pc' = IF cont THEN "for" ELSE "while"
            /\ UNCHANGED <<tick, visible>>
       ELSE IF KeepSampling(rc)
       THEN /\ pc' = "collect"
            /\ tick' = tick + 1
            /\ visible' = Append(visible, 1)
       ELSE /\ pc' = "write"
            /\ UNCHANGED <<tick, visible>>
    /\ UNCHANGED <<elsewhere, args, dest, env, rc, cont, data_log, shape, handles, iter, proc,
                   out, tick_of, counts, race>>

(***************************************************************************)
(* The write-out, lines 73-84 and 159-170: the header, then the entries of *)
(* the log in order.                                                       *)
(***************************************************************************)
WriteHeader ==
    /\ pc = "write"
    /\ IF ToFile(output_file)
       THEN IF dirname(output_file) = <<>>
            THEN \* os.makedirs("") raises FileNotFoundError
                 /\ pc' = "raised"
                 /\ UNCHANGED <<out, dest>>
            ELSE /\ dirs' = makedirs(dirs, dirname(output_file))
                 /\ file' = [exists |-> TRUE,
                             text |-> <<writerow(header_cells(headers))>>]
                 /\ out' = <<headers>>
                 /\ pc' = "rows"
                 /\ UNCHANGED stdout
       ELSE /\ stdout' = Append(stdout, print_line(header_cells(headers)))
            /\ out' = <<headers>>
            /\ pc' = "rows"
            /\ UNCHANGED <<dirs, file>>
    /\ UNCHANGED <<elsewhere, args, env, rc, cont, data_log, shape, handles, iter, proc,
                   history>>

\* for entry in data_log: the entries are written one after the other.
WriteRows ==
    /\ pc = "rows"
    /\ out' = out \o [k \in 1..Len(data_log) |-> data_log[k]]
    /\ IF ToFile(output_file)
       THEN /\ file' = [file EXCEPT
                           !.text = @ \o csv_lines(headers, data_log)]
            /\ UNCHANGED <<dirs, stdout>>
       ELSE /\ stdout' = stdout \o print_lines(headers, data_log)
            /\ UNCHANGED <<dirs, file>>
    /\ pc' = "done"
    /\ UNCHANGED <<elsewhere, args, env, rc, cont, data_log, shape, handles, iter, proc,
                   history>>

Sampler ==
    \/ Lookup
    \/ Barrier
    \/ BarrierSleep
    \/ Setup
    \/ While
    \/ For
    \/ Row
    \/ Collect
    \/ Sleep
    \/ Poll
    \/ Test
    \/ WriteHeader
    \/ WriteRows

Next ==
    \/ Lookup
    \/ Barrier
    \/ BarrierSleep
    \/ Setup
    \/ While
    \/ For
    \/ Row
    \/ Collect
    \/ Sleep
    \/ Poll
    \/ Test
    \/ WriteHeader
    \/ WriteRows
    \/ WriteControl
    \/ ClockAdvance
    \/ ClockSetBack

Spec == Init /\ [][Next]_vars

\* The sampler is a running process: a step it can take is taken.
FairSpec == Spec /\ WF_vars(Sampler)

\* The sampler against a writer whose writes between two reads are recorded.
RaceNext ==
    \/ Lookup
    \/ Barrier
    \/ BarrierSleep
    \/ Setup
    \/ While
    \/ For
    \/ Row
    \/ Collect
    \/ Sleep
    \/ Poll
    \/ Test
    \/ WriteHeader
    \/ WriteRows
    \/ Rewrite

RaceSpec == Init /\ [][RaceNext]_vars

(***************************************************************************)
(* The write-out on its own (lines 73-84 and 159-170), applied to the logs *)
(* a main loop can leave behind: process names that are a comma, a quote   *)
(* or a line break, processes with and without open files.                 *)
(***************************************************************************)
ProcNames == {"init", Comma, Quote, CR, LF}

OpenFiles ==
    { <<>>,
      << [path |-> "/dev/null", fd |-> 3, position |-> 0, mode |-> "r",
          flags |-> 32768] >> }

\* proc.info of such processes
ProcInfos ==
    { [pid |-> 1, name |-> nm, exe |-> nm, cpu_percent |-> 0,
       memory_percent |-> 0, num_threads |-> 1, nice |-> 0, num_fds |-> 0,
       open_files |-> fs] : nm \in ProcNames, fs \in OpenFiles }

\* The sequences over S of length up to MaxLog.
Logs(S) == UNION { [1..k -> S] : k \in 0..MaxLog }

\* The state in which a main loop that has been stopped reaches the
\* write-out: all-process mode after one tick over the processes of the
\* log, named-process mode after one tick for each record.
CsvInit ==
    /\ mode \in Modes
    /\ router_id \in RouterIds
    /\ router_name \in RouterNames
    /\ output_file \in OutputFiles \ {<<>>}
    /\ ctl = [kind |-> "text", text |-> <<"0">>]
    /\ clock = 0
    /\ pc = "write"
    /\ rc = 0
    /\ cont = FALSE
    /\ \E n \in CoreCounts :
        IF mode = "all"
        THEN /\ n = 1
             /\ headers = all_headers
             /\ last_cpu = <<>>
             /\ num_cpus = 0
             /\ data_log \in
                    Logs({all_row(router_id, router_name, 0, info) :
                            info \in ProcInfos}) \ {<<>>}
             /\ table = [k \in 1..Len(data_log) |-> data_log[k][5]]
             /\ bgp_process = 0
             /\ ipfib_process = 0
             /\ urib_process = 0
             /\ proc = Len(data_log)
             /\ tick = 1
             /\ visible = <<Len(data_log)>>
             /\ tick_of = [k \in 1..Len(data_log) |-> 1]
             /\ reads = Len(data_log)
             /\ ones = Len(data_log) - 1
        ELSE /\ headers = bgp_headers(n)
             /\ last_cpu = FirstReading(n)
             /\ num_cpus = n
             /\ data_log \in
                    Logs({bgp_row(router_id, router_name, t, CpuLoad(n, t).cores,
                                  CpuLoad(n, t).procs) : t \in 0..MaxClock})
             /\ table = <<"init">> \o RequiredNames
             /\ bgp_process = FindProcess(table, "bgp")
             /\ ipfib_process = FindProcess(table, "ipfib")
             /\ urib_process = FindProcess(table, "urib")
             /\ proc = 0
             /\ tick = Len(data_log)
             /\ visible = [k \in 1..Len(data_log) |-> 1]
             /\ tick_of = [k \in 1..Len(data_log) |-> k]
             /\ reads = Len(data_log) + 1
             /\ ones = Len(data_log)
    /\ iter = <<>>
    /\ out = <<>>
    /\ dirs = {}
    /\ file = [exists |-> FALSE, text |-> <<>>]
    /\ stdout = <<>>
    /\ absorbed = FALSE
    /\ flicker = "steady"
    /\ missed = {}
    /\ NoTofino
    /\ NoVis

CsvNext ==
    \/ WriteHeader
    \/ WriteRows

CsvSpec == CsvInit /\ [][CsvNext]_vars

(***************************************************************************)
(* tofino_controller.py, lines 212-325: the script issues its operations   *)
(* one after the other.                                                    *)
(***************************************************************************)
\* The sampler is not run.
NoSampler ==
    /\ mode = "all"
    /\ router_id = 7
    /\ router_name = "r1"
    /\ output_file = <<>>
    /\ ctl = [kind |-> "absent", text |-> <<>>]
    /\ clock = 0
    /\ table = <<"init">>
    /\ pc = "off"
    /\ rc = 0
    /\ cont = FALSE
    /\ data_log = <<>>
    /\ headers = <<>>
    /\ last_cpu = <<>>
    /\ num_cpus = 0
    /\ bgp_process = 0
    /\ ipfib_process = 0
    /\ urib_process = 0
    /\ iter = <<>>
    /\ proc = 0
    /\ out = <<>>
    /\ dirs = {}
    /\ file = [exists |-> FALSE, text |-> <<>>]
    /\ stdout = <<>>
    /\ tick = 0
    /\ visible = <<>>
    /\ tick_of = <<>>
    /\ reads = 0
    /\ ones = 0
    /\ absorbed = FALSE
    /\ flicker = "nopoll"
    /\ missed = {}

SwInit ==
    /\ NoSampler
    /\ NoVis
    /\ sw_cfg \in Configs
    /\ switch \in PriorSwitches
    /\ sw_before = switch
    /\ sw_pc = 0
    /\ sw_status = "running"
    /\ sw_ops = <<>>

\* The operation the script issues next.
NextOp == Program(sw_cfg)[sw_pc + 1]

\* The call is made; when it fails outside a try block the script ends.
Issue(o) ==
    /\ switch' = [Apply(switch, o) EXCEPT !.error = FALSE]
    /\ sw_ops' = Append(sw_ops, o)
    /\ sw_pc' = sw_pc + 1
    /\ sw_status' = IF Apply(switch, o).error THEN "failed" ELSE "running"
    /\ UNCHANGED <<sw_cfg, sw_before, sampler, vis>>

SwClear ==
    /\ sw_status = "running"
    /\ NextOp.op = "clear"
    /\ Issue(NextOp)

SwAdd ==
    /\ sw_status = "running"
    /\ NextOp.op = "add"
    /\ Issue(NextOp)

SwSetDefault ==
    /\ sw_status = "running"
    /\ NextOp.op = "set_default"
    /\ Issue(NextOp)

\* A BfRtTableError of the delete is caught (lines 254, 270, 285, 300).
SwMirrorDelete ==
    /\ sw_status = "running"
    /\ NextOp.op = "mirror_delete"
    /\ Issue(NextOp)

SwMirrorAdd ==
    /\ sw_status = "running"
    /\ NextOp.op = "mirror_add"
    /\ Issue(NextOp)

\* bfrt.complete_operations()  (line 325): the script has run through.
SwComplete ==
    /\ sw_status = "running"
    /\ NextOp.op = "complete"
    /\ sw_ops' = Append(sw_ops, NextOp)
    /\ sw_pc' = sw_pc + 1
    /\ sw_status' = "done"
    /\ UNCHANGED <<sw_cfg, switch, sw_before, sampler, vis>>

SwNext ==
    \/ SwClear
    \/ SwAdd
    \/ SwSetDefault
    \/ SwMirrorDelete
    \/ SwMirrorAdd
    \/ SwComplete

SwSpec == SwInit /\ [][SwNext]_vars

(***************************************************************************)
(* visualize_accuracy.py, lines 116-146 and what follows them.             *)
(***************************************************************************)
VisInit ==
    /\ NoSampler
    /\ NoTofino
    /\ vis_args \in VisArgs
    /\ vis_dfs \in UNION {[1..n -> Frames] : n \in 1..MaxFrames}
    /\ vis_df = <<>>
    /\ vis_filtered_df = <<>>
    /\ vis_columns = "read"
    /\ vis_pc = "concat"
    /\ vis_used = <<>>

\* line 116
VisConcat ==
    /\ vis_pc = "concat"
    /\ vis_df' = concat(vis_dfs)
    /\ vis_pc' = "filter"
    /\ UNCHANGED <<vis_args, vis_dfs, vis_filtered_df, vis_columns, vis_used,
                   sampler, tofino>>

\* line 119
VisFilter ==
    /\ vis_pc = "filter"
    /\ vis_filtered_df' =
            Select(vis_df,
                   [r \in EvalRows |->
                        str_contains(r.sample_id, vis_args.filter_sample_id)])
    /\ vis_df' = AfterFilter(vis_df, vis_filtered_df')
    /\ vis_pc' = "rename"
    /\ UNCHANGED <<vis_args, vis_dfs, vis_columns, vis_used, sampler, tofino>>

\* lines 122-131: df.rename(..., inplace=True)
VisRename ==
    /\ vis_pc = "rename"
    /\ vis_columns' = "renamed"
    /\ vis_pc' = "sample"
    /\ UNCHANGED <<vis_args, vis_dfs, vis_df, vis_filtered_df, vis_used,
                   sampler, tofino>>

\* lines 133-139; df.sample raises a ValueError when asked for more rows
\* than df has.
VisSample ==
    /\ vis_pc = "sample"
    /\ IF ~vis_args.quantiles_only \/ vis_args.sample # 0
       THEN LET target_samples ==
                    IF vis_args.sample # 0 THEN vis_args.sample ELSE 100000
                n_samples ==
                    IF Len(vis_df) < target_samples THEN Len(vis_df)
                    ELSE target_samples
                nonzero ==
                    IF vis_args.only_nonzero
                    THEN Select(vis_df, [r \in EvalRows |-> r.measured > 0])
                    ELSE vis_df
            IN  IF n_samples > Len(nonzero)
                THEN /\ vis_df' = nonzero
                     /\ vis_pc' = "raised"
                ELSE /\ vis_df' \in Samples(nonzero, n_samples)
                     /\ vis_pc' = "model"
       ELSE /\ vis_pc' = "model"
            /\ UNCHANGED vis_df
    /\ UNCHANGED <<vis_args, vis_dfs, vis_filtered_df, vis_columns, vis_used,
                   sampler, tofino>>

\* lines 141-146
VisModel ==
    /\ vis_pc = "model"
    /\ vis_df' =
            Select(vis_df,
                   [r \in EvalRows |->
                        /\ vis_args.include_model # {}
                                => r.model \in vis_args.include_model
                        /\ \A model \in vis_args.exclude_model :
                                NotIn(model, r.model)])
    /\ vis_pc' = "rest"
    /\ UNCHANGED <<vis_args, vis_dfs, vis_filtered_df, vis_columns, vis_used,
                   sampler, tofino>>

\* line 148 to the end: the statistics, the transformation to the long
\* format and the plots are all computed from df.
VisRest ==
    /\ vis_pc = "rest"
    /\ vis_used' = vis_df
    /\ vis_pc' = "done"
    /\ UNCHANGED <<vis_args, vis_dfs, vis_df, vis_filtered_df, vis_columns,
                   sampler, tofino>>

VisNext ==
    \/ VisConcat
    \/ VisFilter
    \/ VisRename
    \/ VisSample
    \/ VisModel
    \/ VisRest

VisSpec == VisInit /\ [][VisNext]_vars

(***************************************************************************)
(* Vocabulary of the properties.                                           *)
(***************************************************************************)
BeforeLoop == {"lookup", "barrier", "barrier_sleep"}
ExitPath == {"while", "write", "rows", "done"}
AfterLoop == {"write", "rows", "done"}

\* The control files whose content denotes the integer 1.
OneFiles ==
    { [kind |-> "text", text |-> <<"1">>],
      [kind |-> "text", text |-> <<" ", "1", "\n">>] }

\* One of the three required processes is not in the table.
MissingRequired(tbl) ==
    \E k \in 1..Len(RequiredNames) : ~HasProcess(tbl, RequiredNames[k])

IsPrefix(s, t) == Len(s) <= Len(t) /\ SubSeq(t, 1, Len(s)) = s

\* The number of records appended during tick t.
EmittedIn(t) == Cardinality({i \in 1..Len(tick_of) : tick_of[i] = t})

\* Tick t is over: a later tick has begun, or the sampler is between ticks
\* or past the loop.
TickOver(t) ==
    \/ t < tick
    \/ mode = "all" /\ pc \in ExitPath
    \/ mode = "bgp" /\ pc \in {"sleep", "poll", "test"} \cup AfterLoop

\* Tick t ran through the whole enumeration.
TickComplete(t) == t < tick \/ (mode = "all" /\ pc = "while" /\ cont)

\* A main-loop read of the control file has returned something other than 1:
\* after the barrier rc is 1 until a poll of the main loop replaces it.
StopRead ==
    /\ pc \in {"while", "for", "row", "collect", "sleep", "poll", "test"}
              \cup AfterLoop
    /\ rc # 1

(***************************************************************************)
(* C1.  In both modes the barrier holds as long as every read of the       *)
(* control file yields something other than 1: the sampler stays before    *)
(* the loop with an empty log and nothing written, a read other than 1     *)
(* sends it back to sleep, and it leaves the barrier only on a read that   *)
(* returns 1, taken from a file whose content denotes 1.                   *)
(***************************************************************************)
C1_BarrierHoldsUntilOne ==
    /\ [](pc \in BeforeLoop => data_log = <<>> /\ out = <<>> /\ tick = 0)
    /\ [](pc = "barrier_sleep" => rc # 1)
    /\ [](pc = "setup" => rc = 1 /\ data_log = <<>>)
    /\ [][pc = "barrier" /\ pc' \notin {"barrier", "barrier_sleep", "raised"}
            => pc' = "setup" /\ rc' = 1 /\ ctl \in OneFiles]_vars

\* The sampler is held in the barrier by a control file that reads 2.
C1_Witness == pc = "barrier_sleep" /\ rc = 2 /\ data_log = <<>>

(***************************************************************************)
(* C2.  In both modes, once a read of the control file in the main loop    *)
(* has returned something other than 1, the loop is left at that check     *)
(* and no record is appended any more.                                     *)
(***************************************************************************)
C2_NoSampleAfterStop ==
    [][StopRead =>
         /\ data_log' = data_log
         /\ pc' \in {pc} \cup ExitPath
         /\ (pc = "while" => pc' \in {"while", "write"})]_vars

\* The loop was stopped by a read of 2 after one record.
C2_Witness == pc = "write" /\ rc = 2 /\ Len(data_log) = 1

(***************************************************************************)
(* C3.  If one of the three required processes is missing from the process *)
(* table when monitor_bgp_cpu starts, the function prints its diagnostic   *)
(* and returns before the barrier: no record, no loop, no output.          *)
(***************************************************************************)
C3_MissingProcessAborts ==
    (mode = "bgp" /\ MissingRequired(table))
        => pc \in {"lookup", "aborted"} /\ data_log = <<>> /\ out = <<>>

(***************************************************************************)
(* C4.  As claimed: for every tick that is over, all-process mode has      *)
(* appended as many records as processes were visible at that tick, and    *)
(* named-process mode exactly one.                                         *)
(***************************************************************************)
C4_RecordsPerTick ==
    pc # "raised" =>
        \A t \in 1..tick :
            TickOver(t) =>
                EmittedIn(t) = (IF mode = "all" THEN visible[t] ELSE 1)

(***************************************************************************)
(* C4, amended.  A tick that runs to completion appends as many records    *)
(* as processes were visible (all-process mode) or exactly one record      *)
(* (named-process mode).  In all-process mode the last tick can be cut     *)
(* short by a read other than 1 after any of its records: it has then      *)
(* appended at least one record and at most one per visible process.       *)
(***************************************************************************)
C4_RecordsPerCompleteTick ==
    \A t \in 1..tick :
        /\ EmittedIn(t) <= visible[t]
        /\ TickComplete(t) => EmittedIn(t) = visible[t]
        /\ (mode = "bgp" /\ TickOver(t)) => EmittedIn(t) = 1
        /\ (mode = "all" /\ TickOver(t) /\ pc # "raised") => EmittedIn(t) >= 1

\* A tick of all-process mode over two visible processes has completed.
C4_Witness ==
    /\ mode = "all"
    /\ pc = "while"
    /\ cont
    /\ tick = 1
    /\ visible[1] = 2
    /\ EmittedIn(1) = 2

(***************************************************************************)
(* C5.  Every failure to read the control file is absorbed: whatever state *)
(* the file is in, read_control returns a value, so no run is ever aborted *)
(* by an exception leaving read_control.                                   *)
(***************************************************************************)
C5_ReadNeverRaises == pc # "raised"

(***************************************************************************)
(* C6.  The log is append-only and is written out once, after the last     *)
(* append: records are only added at the end of the log; the write-out     *)
(* puts the header and then the records in log order, is never restarted   *)
(* or taken back, and a run that returns has written the header and every  *)
(* record exactly once; from the start of the write-out on the log         *)
(* does not change.                                                        *)
(***************************************************************************)
C6_AppendOnlyWrittenOnce ==
    /\ [][IsPrefix(data_log, data_log')]_vars
    /\ [][IsPrefix(out, out')]_vars
    /\ [][(pc \in AfterLoop \/ out # <<>>) => data_log' = data_log]_vars
    /\ [](out # <<>> =>
            /\ pc \in {"rows", "done"}
            /\ out[1] = headers
            /\ IsPrefix(out, <<headers>> \o data_log))
    /\ [](pc = "done" => out = <<headers>> \o data_log)

\* A run has returned after writing the header and two records.
C6_Witness == pc = "done" /\ Len(data_log) = 2 /\ Len(out) = 3

(***************************************************************************)
(* C7.  Under the fairness of FairSpec: once a poll of the main loop has   *)
(* returned something other than 1, the sampler leaves the loop, writes    *)
(* its output and terminates; and the sampler is past its loop (writing or *)
(* terminated) only if the latest poll returned something other than 1:    *)
(* as long as every poll reads 1 it neither writes nor terminates.         *)
(***************************************************************************)
C7_StopsOnlyAndSurelyOnStop ==
    /\ (pc = "test" /\ rc # 1)
          ~> (pc = "done" /\ out = <<headers>> \o data_log)
    /\ [](pc \in AfterLoop => rc # 1)
    /\ [][pc \notin AfterLoop /\ pc' \in AfterLoop => rc # 1]_vars

\* All-process mode has terminated on a read of 0 with its output written.
C7_Witness == mode = "all" /\ pc = "done" /\ rc = 0 /\ Len(out) >= 2

(***************************************************************************)
(* C8.  In every record of named-process mode the column "cpu" equals the  *)
(* sum of the per-core columns cpu1..cpuN of the same record.              *)
(***************************************************************************)
Column(name) == CHOOSE k \in 1..Len(headers) : headers[k] = name

PerCoreColumns ==
    {k \in 1..Len(headers) :
        \E c \in 1..Len(CpuColumnNames) : headers[k] = CpuColumnNames[c]}

RECURSIVE SumOver(_, _)
SumOver(row, S) ==
    IF S = {} THEN 0
    ELSE LET k == CHOOSE x \in S : TRUE
         IN  row[k] + SumOver(row, S \ {k})

C8_TotalIsSumOfCores ==
    mode = "bgp" =>
        \A i \in 1..Len(data_log) :
            data_log[i][Column("cpu")] = SumOver(data_log[i], PerCoreColumns)

\* A record of a two-core machine under load: 10 + 20 = 30.
C8_Witness ==
    /\ mode = "bgp"
    /\ num_cpus = 2
    /\ data_log # <<>>
    /\ data_log[1][Column("cpu")] = 30

(***************************************************************************)
(* C9.  Records are in chronological order in the log: for any two records *)
(* i < j, record i was sampled in the same or an earlier tick than record  *)
(* j and its timestamp is not later than record j's.                       *)
(***************************************************************************)
C9_ChronologicalOrder ==
    \A i \in 1..Len(data_log) : \A j \in 1..Len(data_log) :
        i < j =>
            /\ tick_of[i] <= tick_of[j]
            /\ data_log[i][3] <= data_log[j][3]

(***************************************************************************)
(* C10.  The record shape is fixed for a run: from the main loop on the    *)
(* header has 3 + 9 fields in all-process mode and 4 + num_cpus + 3 in     *)
(* named-process mode, every record of the log has as many fields as the   *)
(* header, and header and num_cpus, once set, do not change.               *)
(***************************************************************************)
C10_RecordShapeFixed ==
    /\ [](pc \notin BeforeLoop \cup {"setup", "raised", "aborted"}
            => Len(headers) = IF mode = "all" THEN 3 + 9 ELSE 4 + num_cpus + 3)
    /\ [](\A i \in 1..Len(data_log) : Len(data_log[i]) = Len(headers))
    /\ [][headers # <<>> => headers' = headers /\ num_cpus' = num_cpus]_vars

\* Two records of named-process mode on a two-core machine: 9 fields each.
C10_Witness ==
    /\ mode = "bgp"
    /\ num_cpus = 2
    /\ Len(data_log) = 2
    /\ Len(data_log[2]) = 9

(***************************************************************************)
(* C13.  All-process mode: every record is followed by one sleep and then  *)
(* one read of the control file, so the main loop has read the control     *)
(* file as often as it has appended records (one read is outstanding       *)
(* while the sampler sleeps or is about to read); records are appended     *)
(* and reads are made nowhere else.  A read other than 1 leaves the        *)
(* enumeration at once: past the loop, the processes of the last tick      *)
(* that were not yet yielded are still unrecorded.                         *)
(***************************************************************************)
C13_ReadAfterEachRecord ==
    /\ [](mode = "all" =>
            reads + (IF pc \in {"sleep", "poll"} THEN 1 ELSE 0)
                = Len(data_log))
    /\ [][mode = "all" =>
            /\ (data_log' # data_log =>
                    /\ pc = "row"
                    /\ pc' = "sleep"
                    /\ Len(data_log') = Len(data_log) + 1)
            /\ (pc = "sleep" /\ pc' # pc => pc' = "poll")
            /\ (pc = "poll" /\ pc' # pc => reads' = reads + 1)
            /\ (reads' # reads => pc = "poll")
            /\ (pc = "test" /\ rc # 1 /\ pc' # pc => pc' = "while" /\ ~cont)
            /\ (pc = "while" /\ ~cont /\ pc' # pc => pc' = "write")]_vars
    /\ [](mode = "all" /\ pc \in AfterLoop =>
            /\ rc # 1
            /\ reads = Len(data_log)
            /\ Len(iter) + EmittedIn(tick) = visible[tick])

\* A run over two visible processes was stopped by the read after the first
\* record: one record, one read, one process left unrecorded.
C13_Witness ==
    /\ mode = "all"
    /\ pc = "done"
    /\ visible[1] = 2
    /\ Len(data_log) = 1
    /\ reads = 1
    /\ Len(iter) = 1

(***************************************************************************)
(* C14.  Named-process mode: a tick is a read of the control file that     *)
(* returned 1, then the sample and the append of one record, then the      *)
(* sleep, then the next read.  The log holds as many records as reads of   *)
(* the main loop returned 1 (one more while the record of the latest such  *)
(* read is still to be appended), and a main loop that has ended has made  *)
(* exactly one read more than it has appended records.                     *)
(***************************************************************************)
C14_TickOrder ==
    /\ [][mode = "bgp" =>
            /\ (pc = "test" /\ pc' # pc =>
                    pc' = IF rc = 1 THEN "collect" ELSE "write")
            /\ (pc = "collect" /\ pc' # pc => pc' = "sleep")
            /\ (data_log' # data_log =>
                    /\ pc = "collect"
                    /\ rc = 1
                    /\ Len(data_log') = Len(data_log) + 1)
            /\ (pc = "sleep" /\ pc' # pc => pc' = "poll" /\ reads' = reads)
            /\ (pc = "poll" /\ pc' # pc =>
                    reads' = reads + 1 /\ pc' \in {"test", "raised"})
            /\ (reads' # reads => pc = "poll")]_vars
    /\ [](mode = "bgp" =>
            ones = Len(data_log)
                     + (IF pc \in {"test", "collect"} /\ rc = 1 THEN 1 ELSE 0))
    /\ [](mode = "bgp" /\ pc \in AfterLoop =>
            Len(data_log) = ones /\ reads = Len(data_log) + 1)

\* Two ticks and the read that ended the loop: two records, three reads.
C14_Witness ==
    /\ mode = "bgp"
    /\ pc = "done"
    /\ Len(data_log) = 2
    /\ ones = 2
    /\ reads = 3

(***************************************************************************)
(* C16.  Stopping is final.  Once a read of the main loop has returned     *)
(* something other than 1 the control file is not read again and no record *)
(* is appended, whatever the file holds from then on.  A read that finds   *)
(* the file missing or empty is such a read: it returns 0 through the      *)
(* except branch and the loop ends.                                        *)
(***************************************************************************)
C16_StopIsFinal ==
    /\ [][StopRead =>
            /\ reads' = reads
            /\ data_log' = data_log
            /\ pc' \notin {"barrier", "poll", "row", "collect"}]_vars
    /\ [][(/\ pc = "poll"
           /\ pc' # pc
           /\ \/ ctl.kind = "absent"
              \/ ctl.kind = "text" /\ Strip(ctl.text) = <<>>)
            => rc' = 0 /\ absorbed' /\ pc' = "test"]_vars
    /\ [](absorbed => rc = 0 /\ pc \in {"test", "while", "raised"} \cup AfterLoop)

\* A read that failed ended the loop after one record; the file holds a 1
\* again, and the run has ended without another read.
C16_Witness ==
    /\ pc = "done"
    /\ absorbed
    /\ ctl \in OneFiles
    /\ Len(data_log) = 1
    /\ reads = IF mode = "all" THEN 1 ELSE 2

(***************************************************************************)
(* C17.  The hand-off from the barrier to the main loop.  Named-process    *)
(* mode reads the control file again before its first sample: a sample is  *)
(* taken only after a read of the main loop returned 1, and a run whose    *)
(* first such read returned something else ends with an empty log and      *)
(* writes the header only.  All-process mode appends its first record      *)
(* without any further read: between the barrier and the first record it   *)
(* neither reads the control file nor leaves the loop, and a run that      *)
(* is past the loop has at least one record.                               *)
(***************************************************************************)
C17_HandOff ==
    /\ [][mode = "bgp" /\ pc = "setup" /\ pc' # pc => pc' = "poll"]_vars
    /\ [](mode = "bgp" /\ pc = "collect" => reads >= 1 /\ rc = 1)
    /\ [](mode = "bgp" /\ pc \in AfterLoop /\ reads = 1 => data_log = <<>>)
    /\ [](mode = "bgp" /\ pc = "done" /\ reads = 1 => out = <<headers>>)
    /\ [][(/\ mode = "all"
           /\ pc \in {"setup", "while", "for", "row"}
           /\ data_log = <<>>
           /\ pc' # pc)
            => reads' = 0 /\ pc' \in {"while", "for", "row", "sleep"}]_vars
    /\ [](mode = "all" /\ pc \in {"poll", "test"} \cup AfterLoop =>
            Len(data_log) >= 1)

\* Named-process mode: the flag was taken back after the barrier; the one
\* read of the main loop returned 0 and the output is the header alone.
C17_Witness ==
    /\ mode = "bgp"
    /\ pc = "done"
    /\ reads = 1
    /\ rc = 0
    /\ data_log = <<>>
    /\ Len(out) = 1

(***************************************************************************)
(* C15.  The sampler reacts to the control file only at its own reads.  A  *)
(* write moves nothing of the sampler; what a read decides depends on the  *)
(* file's content at that read alone.  When the file has read 1 for a      *)
(* while between two consecutive reads of the barrier that both found it   *)
(* not reading 1, the second read sends the sampler back to sleep with an  *)
(* empty log; when it has not read 1 for a while between two consecutive   *)
(* reads of the main loop that both found it reading 1, the second read    *)
(* returns 1 and sampling goes on.                                         *)
(***************************************************************************)
C15_OnlyPollPointsCount ==
    /\ [][ctl' # ctl =>
            /\ pc' = pc
            /\ rc' = rc
            /\ cont' = cont
            /\ data_log' = data_log
            /\ out' = out]_vars
    /\ [][pc = "barrier" /\ pc' \notin {pc, "raised"} =>
            /\ (pc' = "setup") = ReadsOne(ctl)
            /\ (pc' = "barrier_sleep") = ~ReadsOne(ctl)]_vars
    /\ [][pc = "poll" /\ pc' \notin {pc, "raised"} =>
            /\ pc' = "test"
            /\ (rc' = 1) = ReadsOne(ctl)]_vars
    /\ [][pc = "barrier" /\ "barrier" \in missed' \ missed =>
            /\ pc' = "barrier_sleep"
            /\ rc' # 1
            /\ data_log' = <<>>
            /\ out' = <<>>]_vars
    /\ [][pc = "poll" /\ "loop" \in missed' \ missed =>
            /\ pc' = "test"
            /\ rc' = 1
            /\ data_log' = data_log]_vars
    /\ [][pc = "test" /\ rc = 1 /\ pc' # pc =>
            pc' \in {"for", "collect"} /\ data_log' = data_log]_vars

\* One run in which both happened: a 1 came and went between two reads of
\* the barrier, later a 0 came and went between two reads of the main
\* loop, and the sampler is about to take its second sample.
C15_Witness ==
    /\ missed = {"barrier", "loop"}
    /\ mode = "bgp"
    /\ pc = "collect"
    /\ reads = 2
    /\ Len(data_log) = 1

(***************************************************************************)
(* Reading back what was written: csv.reader with the default dialect on   *)
(* a file opened with newline="", and the lines of a printed text.         *)
(***************************************************************************)
\* The end of a line, as the reader hands it to its parser.
EOL == "EOL"

ReaderStart == [state |-> "START_RECORD", field |-> <<>>, fields |-> <<>>]

SaveField(st) ==
    [st EXCEPT !.fields = Append(st.fields, st.field), !.field = <<>>]

AddChar(st, c) == [st EXCEPT !.field = Append(st.field, c)]

EndOfLine(st, c) ==
    [SaveField(st) EXCEPT
        !.state = IF c = EOL THEN "START_RECORD" ELSE "EAT_CRNL"]

StartField(st, c) ==
    IF c \in {CR, LF, EOL} THEN EndOfLine(st, c)
    ELSE IF c = Quote THEN [st EXCEPT !.state = "IN_QUOTED_FIELD"]
    ELSE IF c = Comma THEN [SaveField(st) EXCEPT !.state = "START_FIELD"]
    ELSE [AddChar(st, c) EXCEPT !.state = "IN_FIELD"]

\* One character in one state of the reader's parser.
ParseChar(st, c) ==
    CASE st.state = "START_RECORD" ->
            IF c = EOL THEN st
            ELSE IF c \in {CR, LF} THEN [st EXCEPT !.state = "EAT_CRNL"]
            ELSE StartField(st, c)
      [] st.state = "START_FIELD" -> StartField(st, c)
      [] st.state = "IN_FIELD" ->
            IF c \in {CR, LF, EOL} THEN EndOfLine(st, c)
            ELSE IF c = Comma
            THEN [SaveField(st) EXCEPT !.state = "START_FIELD"]
            ELSE AddChar(st, c)
      [] st.state = "IN_QUOTED_FIELD" ->
            IF c = EOL THEN st
            ELSE IF c = Quote
            THEN [st EXCEPT !.state = "QUOTE_IN_QUOTED_FIELD"]
            ELSE AddChar(st, c)
      [] st.state = "QUOTE_IN_QUOTED_FIELD" ->
            IF c = Quote
            THEN [AddChar(st, c) EXCEPT !.state = "IN_QUOTED_FIELD"]
            ELSE IF c = Comma
            THEN [SaveField(st) EXCEPT !.state = "START_FIELD"]
            ELSE IF c \in {CR, LF, EOL} THEN EndOfLine(st, c)
            ELSE [AddChar(st, c) EXCEPT !.state = "IN_FIELD"]
      [] st.state = "EAT_CRNL" ->
            IF c \in {CR, LF} THEN st
            ELSE IF c = EOL THEN [st EXCEPT !.state = "START_RECORD"]
            ELSE [st EXCEPT !.state = "ERROR"]
      [] OTHER -> st

\* The k-th smallest of a set of numbers.
Nth(S, k) == CHOOSE e \in S : Cardinality({x \in S : x <= e}) = k

\* The lines of a text, each with its line end: a line ends after "\n",
\* after "\r\n" and after a "\r" that no "\n" follows.
IsLineEnd(text, i) ==
    \/ text[i] = LF
    \/ text[i] = CR /\ (i = Len(text) \/ text[i + 1] # LF)

LinesIn(text) ==
    LET ends == {i \in 1..Len(text) : IsLineEnd(text, i)}
                    \cup (IF text = <<>> THEN {} ELSE {Len(text)})
    IN  [k \in 1..Cardinality(ends) |->
            SubSeq(text, (IF k = 1 THEN 0 ELSE Nth(ends, k - 1)) + 1,
                   Nth(ends, k))]

\* The lines of a file or stream to which the texts ws were written one
\* after the other, each of them ending in a line end.
RECURSIVE LinesOf(_)
LinesOf(ws) ==
    IF ws = <<>> THEN <<>>
    ELSE LinesIn(Head(ws)) \o LinesOf(Tail(ws))

\* The characters lo..hi of one line go through the parser.
RECURSIVE ParseLine(_, _, _, _)
ParseLine(line, lo, hi, st) ==
    IF lo > hi THEN st
    ELSE IF lo = hi THEN ParseChar(st, line[lo])
    ELSE LET mid == (lo + hi) \div 2
             half == ParseLine(line, lo, mid, st)
         IN  IF half.state = "ERROR" THEN half
             ELSE ParseLine(line, mid + 1, hi, half)

\* The reader takes its input line by line and yields a row whenever the
\* end of a line leaves the parser at the start of a record; at the end of
\* the input a field that was begun is yielded as well.
RECURSIVE ReadLines(_, _, _, _)
ReadLines(lines, k, st, rows) ==
    IF st.state = "ERROR" THEN [ok |-> FALSE, rows |-> rows]
    ELSE IF k > Len(lines)
    THEN [ok |-> TRUE,
          rows |-> IF st.field # <<>> \/ st.state = "IN_QUOTED_FIELD"
                   THEN Append(rows, SaveField(st).fields)
                   ELSE rows]
    ELSE LET s1 == ParseLine(lines[k], 1, Len(lines[k]), st)
             s2 == IF s1.state = "ERROR" THEN s1 ELSE ParseChar(s1, EOL)
         IN  IF s2.state = "START_RECORD"
             THEN ReadLines(lines, k + 1, ReaderStart, Append(rows, s2.fields))
             ELSE ReadLines(lines, k + 1, s2, rows)

\* list(csv.reader(f)) of a file holding the texts ws
csv_reader(ws) == ReadLines(LinesOf(ws), 1, ReaderStart, <<>>)

\* text.split(sep)
Split(text, sep) ==
    LET at == {i \in 1..Len(text) : text[i] = sep} \cup {Len(text) + 1}
    IN  [k \in 1..Cardinality(at) |->
            SubSeq(text, (IF k = 1 THEN 0 ELSE Nth(at, k - 1)) + 1,
                   Nth(at, k) - 1)]

\* The lines of what was printed, without their line ends.
PrintedLines(ws) ==
    LET ls == LinesOf(ws)
    IN  [k \in 1..Len(ls) |-> SubSeq(ls[k], 1, Len(ls[k]) - 1)]

\* The header and the records of the log, each field as str() gives it.
LogAsText ==
    <<header_cells(headers)>>
        \o [k \in 1..Len(data_log) |-> cells(headers, data_log[k])]

(***************************************************************************)
(* C11.  Nothing is written before the write-out, and the write-out goes   *)
(* through.  At the end of a run with an output path the directory of the  *)
(* path exists, nothing was printed, and the file read back as CSV is the  *)
(* header followed by the records of the log in log order, each once; at   *)
(* the end of a run without an output path no file and no directory was    *)
(* made, and the lines printed, split at the commas, are the header        *)
(* followed by the records of the log in log order, each once.             *)
(***************************************************************************)
C11_OutputComplete ==
    /\ [](pc \notin {"rows", "done"} =>
            ~file.exists /\ stdout = <<>> /\ dirs = {})
    /\ [][pc = "write" /\ pc' # pc => pc' = "rows"]_vars
    /\ [](pc = "done" =>
            IF output_file # <<>>
            THEN /\ file.exists
                 /\ dirname(output_file) \in dirs
                 /\ stdout = <<>>
                 /\ csv_reader(file.text) = [ok |-> TRUE, rows |-> LogAsText]
            ELSE /\ ~file.exists
                 /\ dirs = {}
                 /\ LET lines == PrintedLines(stdout)
                    IN  [k \in 1..Len(lines) |->
                            Split(lines[k], Comma)] = LogAsText)

\* A run with --std-out has printed the header and two records.
C11_Witness ==
    /\ pc = "done"
    /\ output_file = <<>>
    /\ Len(data_log) = 2
    /\ Len(PrintedLines(stdout)) = 3
    /\ ~file.exists

(***************************************************************************)
(* C12.  For every log: the CSV file the write-out has written, read back  *)
(* with a CSV reader, has one row for the header and one row for each      *)
(* record of the log, and the fields of its first row are the names of     *)
(* the in-memory header list.                                              *)
(***************************************************************************)
C12_CsvRoundTrip ==
    (pc = "done" /\ file.exists) =>
        LET r == csv_reader(file.text)
        IN  /\ r.ok
            /\ Len(r.rows) = 1 + Len(data_log)
            /\ r.rows[1] = [k \in 1..Len(headers) |-> <<headers[k]>>]

\* Two records were written, the first of a process whose name is a line
\* feed and which has a file open, the second of a process whose name is a
\* double quote.
C12_Witness ==
    /\ pc = "done"
    /\ file.exists
    /\ mode = "all"
    /\ Len(data_log) = 2
    /\ data_log[1][5] = LF
    /\ data_log[1][12] # <<>>
    /\ data_log[2][5] = Quote

(***************************************************************************)
(* What the configuration asks each table to hold.                         *)
(***************************************************************************)
Entries(rules, a) ==
    {[key |-> rules[i].key, action |-> a, args |-> rules[i].args] :
        i \in 1..Len(rules)}

MirrorEntries(rules, a) ==
    {[key |-> rules[i].key, action |-> a, args |-> <<rules[i].session>>] :
        i \in 1..Len(rules)}

Entry(k, a, x) == [key |-> k, action |-> a, args |-> x]

Wanted(c) ==
    [t \in SwTables |->
        CASE t = "delay" -> Entries(c.rules_delay, "send_delayed")
          [] t = "static_route" ->
                Entries(c.rules_static_route, "send")
                  \cup {Entry(<<c.traffic_replication_client_port>>,
                              "replicate_traffic_client", <<>>),
                        Entry(<<c.traffic_replication_server_port>>, "send",
                              <<c.traffic_replication_client_port>>)}
                  \cup {Entry(<<c.rules_mirror_all[i].port>>, "drop", <<>>) :
                            i \in 1..Len(c.rules_mirror_all)}
          [] t = "ipv4_filter" ->
                {Entry(<<c.rules_ipv4_filter[i]>>, "drop", <<>>) :
                    i \in 1..Len(c.rules_ipv4_filter)}
                  \cup {Entry(<<c.traffic_replication_filter_src_ip>>, "drop",
                              <<>>)}
          [] t = "ipv4_route" -> Entries(c.rules_ipv4_route, "send")
          [] t = "l2_route" ->
                Entries(c.rules_l2_route, "send")
                  \cup {Entry(<<"ff:ff:ff:ff:ff:ff">>, "broadcast", <<>>)}
          [] t = "fallback_route" -> Entries(c.rules_fallback_route, "send")
          [] t \in {"tcp_src_mirror", "tcp_dst_mirror"} ->
                MirrorEntries(c.rules_tcp_mirror, "do_tcp_mirror")
          [] t = "ip_mirror" -> MirrorEntries(c.rules_ip_mirror, "do_ip_mirror")
          [] t = "l2_mirror" -> MirrorEntries(c.rules_l2_mirror, "do_l2_mirror")
          [] t = "mirror_all" -> {}
          [] t = "static_host_for_multicast_traffic" ->
                {Entry(<<"0xFFFE">> \o c.rules_traffic_replication[i].key,
                       "set_l2_and_l3_src_and_dst_addr",
                       <<"de:ad:be:ef:de:ad",
                         c.traffic_replication_filter_src_ip>>
                           \o c.rules_traffic_replication[i].args) :
                    i \in 1..Len(c.rules_traffic_replication)}
          [] OTHER ->
                Entries(c.rules_ipv4_host_src_mac, "set_l2_src_addr")
                  \cup Entries(c.rules_ipv4_host_dst_mac, "set_l2_dst_addr")
                  \cup Entries(c.rules_ipv4_host_src_and_dst_mac,
                               "set_l2_src_and_dst_addr")]

WantedDefaults(c) ==
    [t \in SwTables |->
        IF t = "fallback_route" /\ c.debug_port # <<>>
        THEN [action |-> "send", args |-> c.debug_port]
        ELSE IF t = "mirror_all" /\ c.rules_mirror_all # <<>>
        THEN [action |-> "do_mirror_all",
              args |-> <<c.rules_mirror_all[1].session>>]
        ELSE NoDefault]

(***************************************************************************)
(* C18.  In the switch-configuration script every operation that adds an   *)
(* entry to a table or sets its default entry comes after a clear of that  *)
(* table, every table is cleared exactly once, and every add of a mirror   *)
(* session comes right after a delete of that session, which does not end  *)
(* the script when the session does not exist.  When the script has run    *)
(* through, each table holds exactly the entries and the default entry     *)
(* the configuration asks for, whatever the switch held before, and        *)
(* complete_operations was issued once, as the last operation.             *)
(***************************************************************************)
C18_ClearedThenFilled ==
    /\ [](\A i \in 1..Len(sw_ops) :
            sw_ops[i].op \in {"add", "set_default"} =>
                \E j \in 1..(i - 1) : sw_ops[j] = Clear(sw_ops[i].tbl))
    /\ [](\A i \in 1..Len(sw_ops) : \A j \in 1..Len(sw_ops) :
            sw_ops[i].op = "clear" /\ sw_ops[j] = sw_ops[i] => i = j)
    /\ [](\A i \in 1..Len(sw_ops) :
            sw_ops[i].op = "mirror_add" =>
                i > 1 /\ sw_ops[i - 1] = MirrorDelete(sw_ops[i].key[1]))
    /\ [][sw_status = "running" /\ NextOp.op = "mirror_delete"
            => sw_status' = "running"]_vars
    /\ [](sw_status = "done" =>
            /\ switch.tables = Wanted(sw_cfg)
            /\ switch.defaults = WantedDefaults(sw_cfg)
            /\ \A t \in SwTables : \E i \in 1..Len(sw_ops) : sw_ops[i] = Clear(t)
            /\ sw_ops[Len(sw_ops)] = Complete
            /\ \A i \in 1..(Len(sw_ops) - 1) : sw_ops[i] # Complete)

\* The script has run through with every dictionary filled on a switch
\* that something else had filled before: none of the old entries is left.
C18_Witness ==
    /\ sw_status = "done"
    /\ sw_cfg = ConfigFull
    /\ sw_before = StaleSwitch
    /\ Cardinality(switch.tables["l2_route"]) = 3
    /\ \A t \in SwTables : \A e \in switch.tables[t] : e.key # <<"stale">>

(***************************************************************************)
(* C19.  In the plotting script only rows whose sample_id contains the     *)
(* --filter-sample-id string reach the steps that follow the filter: the   *)
(* sampling step starts from such rows only, and the statistics, the       *)
(* transformation and the plots are computed from such rows only.          *)
(***************************************************************************)
Matching(df) ==
    \A i \in 1..Len(df) :
        str_contains(df[i].sample_id, vis_args.filter_sample_id)

C19_OnlyMatchingRowsUsed ==
    /\ vis_pc = "sample" => Matching(vis_df)
    /\ vis_pc = "done" => Matching(vis_used)

=============================================================================
